---- MODULE Spec2Model ----
(***************************************************************************)
(* A model of jobfinder.py: the freshness classifier, the deduplicator,    *)
(* the per-role search collector, the aggregation in main, the matching    *)
(* of postings to resumes, the top-K selection of the digest and the      *)
(* choice of a posting's link.                                             *)
(*                                                                         *)
(* Text is modelled as a sequence of one-character strings, so that        *)
(* str.strip, str.lower, the substring tests and the regular expression    *)
(* of _parse_age_hours are computed and not assumed.  An optional value    *)
(* (a dict key that may be missing, None) is a sequence of length 0 or 1.  *)
(***************************************************************************)
EXTENDS Integers, Sequences, FiniteSets, TLC

VARIABLES
    pc,                 \* position of the program
    config_roles,       \* config["roles"]
    config_locations,   \* config["locations"]
    embedding,          \* the embedding model: which score table cos_sim follows
    roles,              \* main: the roles kept after the duplicate removal
    role_idx,           \* main: index of the role being searched
    all_fresh_jobs,     \* main: the aggregated posting list
    locations,          \* search_jobs_for_role: argument
    min_jobs,           \* search_jobs_for_role: argument
    broaden_to_country, \* search_jobs_for_role: argument (optional)
    sleep_sec,          \* search_jobs_for_role: argument, in tenths of a second
    locs,               \* search_jobs_for_role: normalized location list
    per_loc_start,      \* search_jobs_for_role: location -> pagination offset
    collected,          \* search_jobs_for_role: accumulated fresh postings
    rounds,             \* search_jobs_for_role: round counter
    loc_idx,            \* search_jobs_for_role: position of the for loop in locs
    fresh_for_role,     \* the list search_jobs_for_role returned
    call_log,           \* provider calls of the current search, in order
    events,             \* provider calls and sleeps of the whole run, in order
    matches,            \* match_jobs_to_resumes: name -> list of (score, job)
    top_jobs,           \* build_email: name -> the sorted, truncated list
    fn_in,              \* argument of a function applied on its own
    fn_out              \* its result

mainVars   == <<config_roles, config_locations, embedding, roles, role_idx, all_fresh_jobs>>
searchVars == <<locations, min_jobs, broaden_to_country, sleep_sec, locs, per_loc_start,
                collected, rounds, loc_idx, fresh_for_role, call_log>>
rankVars   == <<matches, top_jobs>>
fnVars     == <<fn_in, fn_out>>
vars       == <<pc, mainVars, searchVars, rankVars, fnVars, events>>

----------------------------------------------------------------------------
(* Bounds of the model *)

\* longest page the provider returns in one call
MaxPage == 2
\* largest min_jobs argument tried
MaxMinJobs == 3
\* fresh postings the program holds at most in one run: the provider has no more
MaxHeld == 4
\* longest posting list given to the deduplicator on its own
MaxDedupLen == 3
\* longest posting list given to match_jobs_to_resumes on its own
MaxRankJobs == 16
\* longest apply_options and related_links list given to extract_job_link
MaxOptions == 2

----------------------------------------------------------------------------
(* Text: str.lower, str.strip, "in", " ".join *)

None == <<>>
Some(x) == <<x>>
\* dict.get(key, default) for a key that may be missing
Get(opt, default) == IF opt = None THEN default ELSE opt[1]

Whitespace == {" ", "\t", "\n"}
Digits == <<"0", "1", "2", "3", "4", "5", "6", "7", "8", "9">>
IsDigit(c) == \E d \in DOMAIN Digits : Digits[d] = c
DigitValue(c) == (CHOOSE d \in DOMAIN Digits : Digits[d] = c) - 1

UpperCase == <<"A", "B", "C", "D", "E", "F", "G", "H", "I", "J", "K", "L", "M",
               "N", "O", "P", "Q", "R", "S", "T", "U", "V", "W", "X", "Y", "Z">>
LowerCase == <<"a", "b", "c", "d", "e", "f", "g", "h", "i", "j", "k", "l", "m",
               "n", "o", "p", "q", "r", "s", "t", "u", "v", "w", "x", "y", "z">>
LowerChar(c) ==
    IF \E k \in DOMAIN UpperCase : UpperCase[k] = c
    THEN LowerCase[CHOOSE k \in DOMAIN UpperCase : UpperCase[k] = c]
    ELSE c
Lower(s) == [k \in DOMAIN s |-> LowerChar(s[k])]

Strip(s) ==
    LET keep == {k \in DOMAIN s : s[k] \notin Whitespace}
    IN  IF keep = {} THEN <<>>
        ELSE LET lo == CHOOSE k \in keep : \A m \in keep : k <= m
                 hi == CHOOSE k \in keep : \A m \in keep : m <= k
             IN  SubSeq(s, lo, hi)

\* sub in s
Contains(s, sub) ==
    \E k \in 1..(Len(s) - Len(sub) + 1) : SubSeq(s, k, k + Len(sub) - 1) = sub

StartsWithAt(s, k, w) == k + Len(w) - 1 <= Len(s) /\ SubSeq(s, k, k + Len(w) - 1) = w

\* " ".join([a, b, c])
JoinSpace(a, b, c) == a \o <<" ">> \o b \o <<" ">> \o c

\* Python truthiness of an optional text, and "a or b"
Truthy(opt) == opt # None /\ opt[1] # <<>>
Or(a, b) == IF Truthy(a) THEN a ELSE b

----------------------------------------------------------------------------
(* _parse_age_hours and is_fresh.  An age is infinite or a number of hours *)
(* kept exactly as a count of sixtieths of an hour (n minutes are n/60 h). *)

\* unknown taken for 0.0 instead of +inf
Inf_as_zero == [inf |-> FALSE, sixtieths |-> 0]
Inf == [inf |-> TRUE, sixtieths |-> 0]
Hours(h) == [inf |-> FALSE, sixtieths |-> 60 * h]
Minutes(m) == [inf |-> FALSE, sixtieths |-> m]
\* age <= max_hours, max_hours a finite number of hours
\* the comparison turned round
AgeLeq_flipped(age, max_hours) == ~age.inf /\ age.sixtieths >= 60 * max_hours
AgeLeq(age, max_hours) == ~age.inf /\ age.sixtieths <= 60 * max_hours

W_minute == <<"m", "i", "n", "u", "t", "e">>
W_hour == <<"h", "o", "u", "r">>
W_day == <<"d", "a", "y">>
W_just == <<"j", "u", "s", "t">>
W_today == <<"t", "o", "d", "a", "y">>

\* end of the longest run of characters of t in S that starts at k (k-1: none)
RECURSIVE RunEnd(_, _, _)
RunEnd(t, k, isIn) ==
    IF k <= Len(t) /\ isIn[t[k]] THEN RunEnd(t, k + 1, isIn) ELSE k - 1

RECURSIVE IntOf(_)
\* int(m.group(1))
IntOf(ds) == IF ds = <<>> THEN 0 ELSE 10 * IntOf(SubSeq(ds, 1, Len(ds) - 1)) + DigitValue(ds[Len(ds)])

\* the unit alternative that matches at position k: "minute" | "hour" | "day"
\* ("minutes", "hours", "days" are only reached through their singular)
UnitAt(t, k) ==
    IF StartsWithAt(t, k, W_minute) THEN "minute"
    ELSE IF StartsWithAt(t, k, W_hour) THEN "hour"
    ELSE IF StartsWithAt(t, k, W_day) THEN "day"
    ELSE "none"

\* re.search(r"(\d+)\s*(minute|minutes|hour|hours|day|days)", t):
\* a match that starts at k takes digits t[k..e], e <= the end of the run
\* (backtracking), then all the whitespace that follows, then a unit
MatchFrom(t, k) ==
    LET chars == {t[m] : m \in DOMAIN t}
        digit == [c \in chars |-> IsDigit(c)]
        space == [c \in chars |-> c \in Whitespace]
        dEnd  == RunEnd(t, k, digit)
        ends  == {e \in k..dEnd : \E w \in e..RunEnd(t, e + 1, space) : UnitAt(t, w + 1) # "none"}
    IN  IF ends = {} THEN None
        ELSE LET e == CHOOSE x \in ends : \A y \in ends : y <= x
                 w == CHOOSE x \in e..RunEnd(t, e + 1, space) : UnitAt(t, x + 1) # "none"
                          /\ \A y \in e..RunEnd(t, e + 1, space) : UnitAt(t, y + 1) # "none" => y <= x
             IN  Some([n |-> IntOf(SubSeq(t, k, e)), unit |-> UnitAt(t, w + 1)])

ReSearch(t) ==
    LET starts == {k \in DOMAIN t : MatchFrom(t, k) # None}
    IN  IF starts = {} THEN None
        ELSE MatchFrom(t, CHOOSE k \in starts : \A m \in starts : k <= m)

\* the regular expression tried before "just" and "today"
parse_age_hours_regex_first(text) ==
    LET t == Strip(Lower(Get(text, <<>>)))
    IN  IF t = <<>> THEN Inf
        ELSE LET m == ReSearch(t)
             IN  IF m # None /\ m[1].unit = "minute" THEN Minutes(m[1].n)
                 ELSE IF m # None /\ m[1].unit = "hour" THEN Hours(m[1].n)
                 ELSE IF m # None /\ m[1].unit = "day" THEN Hours(m[1].n * 24)
                 ELSE IF Contains(t, W_just) \/ Contains(t, W_today) THEN Hours(0)
                 ELSE Inf

parse_age_hours(text) ==
    LET t == Strip(Lower(Get(text, <<>>)))
    IN  IF t = <<>> THEN Inf
        ELSE IF Contains(t, W_just) \/ Contains(t, W_today) THEN Hours(0)
        ELSE LET m == ReSearch(t)
             IN  IF m = None THEN Inf
                 ELSE IF m[1].unit = "minute" THEN Minutes(m[1].n)
                 ELSE IF m[1].unit = "hour" THEN Hours(m[1].n)
                 ELSE IF m[1].unit = "day" THEN Hours(m[1].n * 24)
                 ELSE Inf

\* the text is_fresh hands to _parse_age_hours
PostedText(job) ==
    LET det == Get(job.detected_extensions, [posted_at |-> None, posted |-> None])
    IN  Strip(Get(Or(Or(det.posted_at, det.posted), Some(<<>>)), <<>>))

is_fresh(job, max_hours) == AgeLeq(parse_age_hours(Some(PostedText(job))), max_hours)

----------------------------------------------------------------------------
(* Freshness texts and postings the provider may return *)

\* ""
T_empty == <<>>
\* "  "
T_blank == <<" ", " ">>
\* "tomorrow"
T_tomorrow == <<"t", "o", "m", "o", "r", "r", "o", "w">>
\* "3 weeks ago"
T_weeks == <<"3", " ", "w", "e", "e", "k", "s", " ", "a", "g", "o">>
\* "hours ago"
T_hours_ago == <<"h", "o", "u", "r", "s", " ", "a", "g", "o">>
\* "30+ days ago"
T_30plus == <<"3", "0", "+", " ", "d", "a", "y", "s", " ", "a", "g", "o">>
\* "Today"
T_today == <<"T", "o", "d", "a", "y">>
\* "Just posted"
T_just == <<"J", "u", "s", "t", " ", "p", "o", "s", "t", "e", "d">>
\* "3 days ago, updated today"
T_3d_today == <<"3", " ", "d", "a", "y", "s", " ", "a", "g", "o", ",", " ", "u", "p", "d", "a", "t", "e", "d", " ", "t", "o", "d", "a", "y">>
\* "45 minutes ago"
T_45m == <<"4", "5", " ", "m", "i", "n", "u", "t", "e", "s", " ", "a", "g", "o">>
\* "1440 minutes ago"
T_1440m == <<"1", "4", "4", "0", " ", "m", "i", "n", "u", "t", "e", "s", " ", "a", "g", "o">>
\* "1441 minutes ago"
T_1441m == <<"1", "4", "4", "1", " ", "m", "i", "n", "u", "t", "e", "s", " ", "a", "g", "o">>
\* "2 hours ago"
T_2h == <<"2", " ", "h", "o", "u", "r", "s", " ", "a", "g", "o">>
\* "2 HOURS AGO"
T_2H == <<"2", " ", "H", "O", "U", "R", "S", " ", "A", "G", "O">>
\* "20 hours ago"
T_20h == <<"2", "0", " ", "h", "o", "u", "r", "s", " ", "a", "g", "o">>
\* " 24<tab>hours ago "
T_24h == <<" ", "2", "4", "\t", "h", "o", "u", "r", "s", " ", "a", "g", "o", " ">>
\* "25 hours ago"
T_25h == <<"2", "5", " ", "h", "o", "u", "r", "s", " ", "a", "g", "o">>
\* "1 day ago"
T_1d == <<"1", " ", "d", "a", "y", " ", "a", "g", "o">>
\* "3 days ago"
T_3d == <<"3", " ", "d", "a", "y", "s", " ", "a", "g", "o">>
\* "POSTED TODAY"
T_TODAY == <<"P", "O", "S", "T", "E", "D", " ", "T", "O", "D", "A", "Y">>
\* "Adjusted 5 days ago"
T_adjusted == <<"A", "d", "j", "u", "s", "t", "e", "d", " ", "5", " ", "d", "a", "y", "s", " ", "a", "g", "o">>
\* "1hour"
T_1hour == <<"1", "h", "o", "u", "r">>

\* texts with no "just"/"today" and no integer followed by a unit
UnparseableTexts == {T_empty, T_blank, T_tomorrow, T_weeks, T_hours_ago}
FreshTexts == UnparseableTexts \cup
    {T_30plus, T_today, T_just, T_3d_today, T_45m, T_1440m, T_1441m, T_2h, T_2H,
     T_20h, T_24h, T_25h, T_1d, T_3d, T_1hour, T_TODAY, T_adjusted}

\* a raw posting record; every key may be missing
Job(title, company_name, location, description, det) ==
    [title |-> title, company_name |-> company_name, location |-> location,
     description |-> description, detected_extensions |-> det]
PostedAt(t) == Some([posted_at |-> Some(t), posted |-> None])
Posted(t) == Some([posted_at |-> None, posted |-> Some(t)])

\* key1, posted 2 hours ago
pA == Job(Some(<<"a">>), Some(<<"c">>), Some(<<"x">>), Some(<<"d">>), PostedAt(T_2h))
\* key1 again (title and location differ by surrounding blanks), other description and age
pA2 == Job(Some(<<" ", "a">>), Some(<<"c">>), Some(<<"x", " ">>), Some(<<"e">>), PostedAt(T_20h))
\* key2, no description, age in the fallback field
pB == Job(Some(<<"b">>), Some(<<"c">>), Some(<<"x">>), None, Posted(T_today))
\* fresh, but title, company and description are missing or blank
pBlank == Job(None, Some(<<>>), None, Some(<<" ">>), Posted(T_just))
\* key1, stale
pOld == Job(Some(<<"a">>), Some(<<"c">>), Some(<<"x">>), Some(<<"d">>), PostedAt(T_3d))
\* key2, age unparseable
pBad == Job(Some(<<"b">>), Some(<<"c">>), Some(<<"x">>), Some(<<"d">>), PostedAt(T_tomorrow))

----------------------------------------------------------------------------
(* _dedup_by_title_company_location *)

\* the key without strip
DedupKey_untrimmed(j) == <<Get(j.title, <<>>), Get(j.company_name, <<>>), Get(j.location, <<>>)>>
\* the key without company and location
DedupKey_title_only(j) == <<Strip(Get(j.title, <<>>))>>
DedupKey(j) ==
    <<Strip(Get(j.title, <<>>)), Strip(Get(j.company_name, <<>>)), Strip(Get(j.location, <<>>))>>

\* the loop of lines 87-92 from position k on, with the keys seen and the output so far
RECURSIVE DedupLoop(_, _, _, _)
DedupLoop(jobs, k, seen, out) ==
    IF k > Len(jobs) THEN out
    ELSE IF DedupKey(jobs[k]) \in seen THEN DedupLoop(jobs, k + 1, seen, out)
    ELSE DedupLoop(jobs, k + 1, seen \cup {DedupKey(jobs[k])}, Append(out, jobs[k]))

dedup_by_title_company_location(jobs) == DedupLoop(jobs, 1, {}, <<>>)

----------------------------------------------------------------------------
(* search_jobs_for_role *)

hard_cap_rounds == 8
\* the default sleep_sec=1.5, in tenths of a second
DefaultSleepSec == 15
PageSize == 20
FreshHours == 24

Min(a, b) == IF a <= b THEN a ELSE b
Max(a, b) == IF a >= b THEN a ELSE b
Range(s) == {s[k] : k \in DOMAIN s}

\* a location is a name that is only compared and looked up: Python truthiness
\* of an optional name
TruthyName(opt) == opt # None /\ opt[1] # ""

\* lines 117-122: no duplicates, order kept
RECURSIVE NormalizeLoop(_, _, _, _)
NormalizeLoop(ls, k, seen_loc, out) ==
    IF k > Len(ls) THEN out
    ELSE IF ls[k] \in seen_loc THEN NormalizeLoop(ls, k + 1, seen_loc, out)
    ELSE NormalizeLoop(ls, k + 1, seen_loc \cup {ls[k]}, Append(out, ls[k]))

\* the duplicates kept
NormalizeLocations_keep_dups(ls) == ls
NormalizeLocations(ls) == NormalizeLoop(ls, 1, {}, <<>>)

\* what the provider may answer: a page of at most n postings
ProviderPostings == {pA, pA2, pBlank, pOld}
Pages(n) == UNION {[1..k -> ProviderPostings] : k \in 0..n}

\* line 137: fresh = [r for r in results if is_fresh(r)]; is_fresh(r), with its
\* default threshold, is tabulated once over the postings the provider returns
FreshVerdict == [p \in ProviderPostings |-> is_fresh(p, FreshHours)]
IsFreshDefault(r) == FreshVerdict[r]
\* the filter forgotten
FreshOnly_keep_all(results) == results
FreshOnly(results) == SelectSeq(results, IsFreshDefault)

\* lines 129, 142, 145: the three tests of the target
\* the cap off by one; the inner break forgotten
LoopGoesOn_cap_off_by_one(c, m, r) == Len(c) < m /\ r <= hard_cap_rounds
BreakInner_never(c, m) == FALSE
LoopGoesOn(c, m, r) == Len(c) < m /\ r < hard_cap_rounds
BreakInner(c, m) == Len(c) >= m
BreakOuter(c, m) == Len(c) >= m

\* lines 149-150: if rounds == 2 and broaden_to_country: if ... not in per_loc_start
\* the broadening one round early
BroadenNow_round_one(r, b, starts) == r = 1 /\ TruthyName(b) /\ b[1] \notin DOMAIN starts
BroadenNow(r, b, starts) == r = 2 /\ TruthyName(b) /\ b[1] \notin DOMAIN starts

\* the time line of a run: a provider call (line 133), a sleep (lines 141, 243)
CallEvent == [kind |-> "call", sec |-> 0, at |-> "search"]
SleepEvent(sec, at) == [kind |-> "sleep", sec |-> sec, at |-> at]
\* line 141: time.sleep(sleep_sec), after every call
\* the sleep only after a page that held a fresh posting
Slept_only_after_fresh(fresh, sec) == IF fresh = <<>> THEN <<>> ELSE <<SleepEvent(sec, "search")>>
Slept(fresh, sec) == <<SleepEvent(sec, "search")>>

\* line 155: collected[:max(min_jobs, len(collected))]
\* the slice cut at min_jobs
ReturnSlice_min(c, m) == SubSeq(c, 1, Min(Len(c), m))
ReturnSlice(c, m) == SubSeq(c, 1, Min(Len(c), Max(m, Len(c))))

\* lines 116-127
SearchEnter ==
    /\ pc = "search"
    /\ locs' = NormalizeLocations(locations)
    /\ per_loc_start' = [loc \in Range(NormalizeLocations(locations)) |-> 0]
    /\ collected' = <<>>
    /\ rounds' = 0
    /\ loc_idx' = 0
    /\ call_log' = <<>>
    /\ pc' = "while"
    /\ UNCHANGED <<mainVars, rankVars, fnVars, locations, min_jobs, broaden_to_country, sleep_sec,
                   fresh_for_role, events>>

\* lines 129-131: the while test, the round counter, the start of the for loop
WhileTest ==
    /\ pc = "while"
    /\ IF LoopGoesOn(collected, min_jobs, rounds)
       THEN /\ rounds' = rounds + 1
            /\ loc_idx' = 1
            /\ pc' = IF locs = <<>> THEN "after_for" ELSE "for_loc"
       ELSE /\ pc' = "return"
            /\ UNCHANGED <<rounds, loc_idx>>
    /\ UNCHANGED <<mainVars, rankVars, fnVars, locations, min_jobs, broaden_to_country, sleep_sec,
                   locs, per_loc_start, collected, fresh_for_role, call_log, events>>

\* lines 132-143: one iteration of the for loop, the provider answering
ForLoc ==
    /\ pc = "for_loc"
    /\ \E results \in Pages(MaxPage) :
         LET loc == locs[loc_idx]
             acc == collected \o FreshOnly(results)
         IN  /\ Len(all_fresh_jobs) + Len(acc) <= MaxHeld
             /\ call_log' = Append(call_log, [loc |-> loc, start |-> per_loc_start[loc],
                                              round |-> rounds, ok |-> TRUE])
             /\ events' = Append(events, CallEvent) \o Slept(FreshOnly(results), sleep_sec)
             /\ per_loc_start' = [per_loc_start EXCEPT ![loc] = @ + PageSize]
             /\ collected' = acc
             /\ IF BreakInner(acc, min_jobs) \/ loc_idx = Len(locs)
                THEN pc' = "after_for" /\ UNCHANGED loc_idx
                ELSE pc' = "for_loc" /\ loc_idx' = loc_idx + 1
    /\ UNCHANGED <<mainVars, rankVars, fnVars, locations, min_jobs, broaden_to_country, sleep_sec,
                   locs, rounds, fresh_for_role>>

\* line 133 when GoogleSearch(...).get_dict() raises: nothing in
\* search_jobs_for_role or main catches it, the program ends with the traceback
ForLocRaises ==
    /\ pc = "for_loc"
    /\ call_log' = Append(call_log, [loc |-> locs[loc_idx], start |-> per_loc_start[locs[loc_idx]],
                                     round |-> rounds, ok |-> FALSE])
    /\ events' = Append(events, CallEvent)
    /\ pc' = "raised"
    /\ UNCHANGED <<mainVars, rankVars, fnVars, locations, min_jobs, broaden_to_country, sleep_sec,
                   locs, per_loc_start, collected, rounds, loc_idx, fresh_for_role>>

\* lines 145-152
AfterFor ==
    /\ pc = "after_for"
    /\ IF BreakOuter(collected, min_jobs)
       THEN /\ pc' = "return"
            /\ UNCHANGED <<locs, per_loc_start>>
       ELSE /\ pc' = "while"
            /\ IF BroadenNow(rounds, broaden_to_country, per_loc_start)
               THEN /\ per_loc_start' =
                          [loc \in DOMAIN per_loc_start \cup {broaden_to_country[1]} |->
                              IF loc \in DOMAIN per_loc_start THEN per_loc_start[loc] ELSE 0]
                    /\ locs' = Append(locs, broaden_to_country[1])
               ELSE UNCHANGED <<locs, per_loc_start>>
    /\ UNCHANGED <<mainVars, rankVars, fnVars, locations, min_jobs, broaden_to_country, sleep_sec,
                   collected, rounds, loc_idx, fresh_for_role, call_log, events>>

\* lines 154-155
SearchReturn ==
    /\ pc = "return"
    /\ fresh_for_role' = ReturnSlice(dedup_by_title_company_location(collected), min_jobs)
    /\ pc' = "returned"
    /\ UNCHANGED <<mainVars, rankVars, fnVars, locations, min_jobs, broaden_to_country, sleep_sec,
                   locs, per_loc_start, collected, rounds, loc_idx, call_log, events>>

SearchNext == SearchEnter \/ WhileTest \/ ForLoc \/ ForLocRaises \/ AfterFor \/ SearchReturn

----------------------------------------------------------------------------
(* match_jobs_to_resumes and the top 15 of build_email *)

TopK == 15
MainMinJobs == 10
\* sleep_sec=1.0 and time.sleep(1) of main, in tenths of a second
MainSleepSec == 10
MainPause == 10

\* the keys of resumes, in insertion order
ResumeNames == <<"Data Analyst", "Application Support Analyst">>

\* the embedding model and util.cos_sim are external: a score is a function of
\* the resume and of the posting's text alone.  Two score tables stand for the
\* model, in hundredths; each ranks the postings for one resume and ties them
\* for the other
EmbeddingModels == {"m1", "m2"}
cos_sim(model, name, desc) ==
    IF (model = "m1") = (name = ResumeNames[1])
    THEN (IF Contains(desc, <<"a">>) THEN 80 ELSE 30)
    ELSE 50

\* the join without the strip
CompositeText_no_strip(j) ==
    JoinSpace(Get(j.title, <<>>), Get(j.company_name, <<>>), Get(j.description, <<>>))
\* line 164
CompositeText(j) ==
    Strip(JoinSpace(Get(j.title, <<>>), Get(j.company_name, <<>>), Get(j.description, <<>>)))

\* lines 163-168: the positions of the postings kept for scoring
JobRefs(jobs) == SelectSeq([k \in DOMAIN jobs |-> k], LAMBDA k : CompositeText(jobs[k]) # <<>>)

\* matches = {} instead of one empty list per resume
EmptyMatches_no_keys == [name \in {} |-> <<>>]
\* line 159
EmptyMatches == [name \in Range(ResumeNames) |-> <<>>]

\* lines 176-178: one posting scored against every resume; the entry (score, j)
\* holds j as the reference it is: the position of the posting in jobs
RECURSIVE ScoreOne(_, _, _, _, _)
ScoreOne(m, model, jobs, ref, n) ==
    IF n > Len(ResumeNames) THEN m
    ELSE ScoreOne([m EXCEPT ![ResumeNames[n]] =
                       Append(@, [score |-> cos_sim(model, ResumeNames[n], CompositeText(jobs[ref])),
                                  ref |-> ref])],
                  model, jobs, ref, n + 1)

\* lines 174-178
RECURSIVE ScoreLoop(_, _, _, _, _)
ScoreLoop(m, model, jobs, refs, k) ==
    IF k > Len(refs) THEN m
    ELSE ScoreLoop(ScoreOne(m, model, jobs, refs[k], 1), model, jobs, refs, k + 1)

match_jobs_to_resumes(model, jobs) ==
    IF JobRefs(jobs) = <<>> THEN EmptyMatches
    ELSE ScoreLoop(EmptyMatches, model, jobs, JobRefs(jobs), 1)

\* sorted(job_list, key=lambda x: x[0], reverse=True): stable, so an entry goes
\* behind every entry whose score is not lower
\* an entry put in front of the entries of equal score
RECURSIVE InsertDesc_before_equal(_, _)
InsertDesc_before_equal(sorted, e) ==
    IF sorted = <<>> THEN <<e>>
    ELSE IF Head(sorted).score > e.score
         THEN <<Head(sorted)>> \o InsertDesc_before_equal(Tail(sorted), e)
    ELSE <<e>> \o sorted
RECURSIVE InsertDesc(_, _)
InsertDesc(sorted, e) ==
    IF sorted = <<>> THEN <<e>>
    ELSE IF Head(sorted).score >= e.score THEN <<Head(sorted)>> \o InsertDesc(Tail(sorted), e)
    ELSE <<e>> \o sorted

RECURSIVE SortedDesc(_, _, _)
SortedDesc(job_list, k, acc) ==
    IF k > Len(job_list) THEN acc ELSE SortedDesc(job_list, k + 1, InsertDesc(acc, job_list[k]))

\* line 193
TopJobs(job_list) == SubSeq(SortedDesc(job_list, 1, <<>>), 1, Min(TopK, Len(job_list)))

\* line 245
MatchJobs ==
    /\ pc = "match"
    /\ matches' = match_jobs_to_resumes(embedding, all_fresh_jobs)
    /\ pc' = "build"
    /\ UNCHANGED <<mainVars, searchVars, fnVars, top_jobs, events>>

\* line 246, lines 186-195: the list rendered for every resume
BuildEmail ==
    /\ pc = "build"
    /\ top_jobs' = [name \in DOMAIN matches |->
                       IF matches[name] = <<>> THEN <<>> ELSE TopJobs(matches[name])]
    /\ pc' = "done"
    /\ UNCHANGED <<mainVars, searchVars, fnVars, matches, events>>

----------------------------------------------------------------------------
(* main *)

\* "DA", "da " (the same role after strip and lower), "QA"
R_da == <<"D", "A">>
R_da2 == <<"d", "a", " ">>
R_qa == <<"Q", "A">>
RoleConfigs == {<<>>, <<R_da>>, <<R_da, R_da2, R_qa>>}
LocationConfigs == {<<>>, <<"Remote">>, <<"Remote", "Ontario", "Remote">>}
BroadenOptions == {None, Some(""), Some("Canada"), Some("Ontario")}

\* lines 224-230
RECURSIVE RolesLoop(_, _, _, _)
RolesLoop(rs, k, seen, out) ==
    IF k > Len(rs) THEN out
    ELSE IF Lower(Strip(rs[k])) \in seen THEN RolesLoop(rs, k + 1, seen, out)
    ELSE RolesLoop(rs, k + 1, seen \cup {Lower(Strip(rs[k]))}, Append(out, Strip(rs[k])))

\* lines 223-232
MainStart ==
    /\ pc = "main"
    /\ roles' = RolesLoop(config_roles, 1, {}, <<>>)
    /\ all_fresh_jobs' = <<>>
    /\ role_idx' = 1
    /\ pc' = "for_role"
    /\ UNCHANGED <<config_roles, config_locations, embedding, searchVars, rankVars, fnVars, events>>

\* lines 233-240: the call of search_jobs_for_role for the next role
MainCallSearch ==
    /\ pc = "for_role"
    /\ role_idx <= Len(roles)
    /\ locations' = config_locations
    /\ min_jobs' = MainMinJobs
    /\ broaden_to_country' = None
    /\ sleep_sec' = MainSleepSec
    /\ pc' = "search"
    /\ UNCHANGED <<mainVars, rankVars, fnVars, locs, per_loc_start, collected, rounds,
                   loc_idx, fresh_for_role, call_log, events>>

\* lines 241-243
MainCollect ==
    /\ pc = "returned"
    /\ all_fresh_jobs' = all_fresh_jobs \o fresh_for_role
    /\ role_idx' = role_idx + 1
    /\ events' = Append(events, SleepEvent(MainPause, "main"))
    /\ pc' = "for_role"
    /\ UNCHANGED <<config_roles, config_locations, embedding, roles, searchVars, rankVars, fnVars>>

\* line 233 with no role left
MainRolesDone ==
    /\ pc = "for_role"
    /\ role_idx > Len(roles)
    /\ pc' = "match"
    /\ UNCHANGED <<mainVars, searchVars, rankVars, fnVars, events>>

----------------------------------------------------------------------------
(* The program: main from its first line *)

NoLocMap == [loc \in {} |-> 0]

\* the parts of the state a specification leaves untouched
NoConfig == config_roles = <<>> /\ config_locations = <<>> /\ roles = <<>> /\ role_idx = 0
NoSearch ==
    /\ locations = <<>> /\ min_jobs = 0 /\ broaden_to_country = None /\ sleep_sec = 0
    /\ locs = <<>> /\ per_loc_start = NoLocMap /\ collected = <<>>
    /\ rounds = 0 /\ loc_idx = 0 /\ fresh_for_role = <<>> /\ call_log = <<>>
    /\ events = <<>>
NoRank == matches = EmptyMatches /\ top_jobs = EmptyMatches
NoFn == fn_in = <<>> /\ fn_out = <<>>

Init ==
    /\ pc = "main"
    /\ config_roles \in RoleConfigs
    /\ config_locations \in LocationConfigs
    /\ embedding \in EmbeddingModels
    /\ roles = <<>> /\ role_idx = 0 /\ all_fresh_jobs = <<>>
    /\ locations = <<>> /\ min_jobs = 0 /\ broaden_to_country = None /\ sleep_sec = 0
    /\ locs = <<>> /\ per_loc_start = NoLocMap /\ collected = <<>>
    /\ rounds = 0 /\ loc_idx = 0 /\ fresh_for_role = <<>>
    /\ call_log = <<>> /\ events = <<>>
    /\ matches = EmptyMatches /\ top_jobs = EmptyMatches
    /\ fn_in = <<>> /\ fn_out = <<>>

Next ==
    \/ MainStart \/ MainCallSearch \/ MainCollect \/ MainRolesDone
    \/ SearchNext
    \/ MatchJobs \/ BuildEmail

Spec == Init /\ [][Next]_vars

(* search_jobs_for_role called on its own with any arguments *)

InitSearch ==
    /\ pc = "search"
    /\ config_roles = <<>> /\ config_locations = <<>> /\ embedding = "m1"
    /\ roles = <<>> /\ role_idx = 0 /\ all_fresh_jobs = <<>>
    /\ locations \in LocationConfigs
    /\ min_jobs \in 0..MaxMinJobs
    /\ broaden_to_country \in BroadenOptions
    /\ sleep_sec = DefaultSleepSec
    /\ locs = <<>> /\ per_loc_start = NoLocMap /\ collected = <<>>
    /\ rounds = 0 /\ loc_idx = 0 /\ fresh_for_role = <<>>
    /\ call_log = <<>> /\ events = <<>>
    /\ matches = EmptyMatches /\ top_jobs = EmptyMatches
    /\ fn_in = <<>> /\ fn_out = <<>>

SpecSearch == InitSearch /\ [][SearchNext]_vars

(* is_fresh applied on its own to any posting and threshold *)

Thresholds == {0, 1, 24, 25, 72, 9999}
DetShapes(t) ==
    {PostedAt(t), Posted(t),
     Some([posted_at |-> Some(<<>>), posted |-> Some(t)]),
     Some([posted_at |-> Some(t), posted |-> Some(T_2h)]),
     Some([posted_at |-> Some(T_tomorrow), posted |-> Some(t)])}
FreshJobs ==
    {Job(Some(<<"a">>), Some(<<"c">>), Some(<<"x">>), Some(<<"d">>), det) :
        det \in UNION {DetShapes(t) : t \in FreshTexts}
                  \cup {None, Some([posted_at |-> None, posted |-> None])}}

InitFresh ==
    /\ pc = "is_fresh"
    /\ fn_in \in [job : FreshJobs, max_hours : Thresholds]
    /\ fn_out = <<>>
    /\ NoConfig /\ embedding = "m1" /\ all_fresh_jobs = <<>> /\ NoSearch /\ NoRank

\* lines 79-82, with the age of line 81 kept beside the verdict
IsFreshCall ==
    /\ pc = "is_fresh"
    /\ fn_out' = [hours |-> parse_age_hours(Some(PostedText(fn_in.job))),
                  fresh |-> is_fresh(fn_in.job, fn_in.max_hours)]
    /\ pc' = "fn_done"
    /\ UNCHANGED <<mainVars, searchVars, rankVars, fn_in, events>>

\* is_fresh again on the same posting with a threshold that is not lower
IsFreshAgain ==
    /\ pc = "fn_done"
    /\ \E h2 \in Thresholds :
          /\ h2 >= fn_in.max_hours
          /\ fn_out' = [hours |-> fn_out.hours, fresh |-> fn_out.fresh,
                        max_hours2 |-> h2, fresh2 |-> is_fresh(fn_in.job, h2)]
    /\ pc' = "fn_done2"
    /\ UNCHANGED <<mainVars, searchVars, rankVars, fn_in, events>>

SpecFresh == InitFresh /\ [][IsFreshCall \/ IsFreshAgain]_vars

(* extract_job_link applied on its own to any posting *)

\* a link is a name that is only tested and returned; the option at position n
\* of a list has no "link" key, an empty link, or a link of its own
ApplyLinks == <<"apply0", "apply1", "apply2", "apply3">>
RelatedLinks == <<"related0", "related1", "related2", "related3">>
LinkChoices(names, n) == {None, Some(""), Some(names[n])}
OptionLists(names) ==
    UNION {{[n \in 1..len |-> [link |-> f[n]]] :
               f \in {g \in [1..len -> UNION {LinkChoices(names, n) : n \in 1..len}] :
                          \A n \in 1..len : g[n] \in LinkChoices(names, n)}} :
           len \in 0..MaxOptions}
LinkJobs ==
    [apply_options : {None} \cup {Some(l) : l \in OptionLists(ApplyLinks)},
     related_links : {None} \cup {Some(l) : l \in OptionLists(RelatedLinks)},
     link : {None, Some(""), Some("direct")}]

\* Python truthiness of an optional link
TruthyLink(opt) == opt # None /\ opt # Some("")

\* lines 39-40 and 43-44: job.get(key) truthy, then [0].get("link")
\* the last option of the list instead of the first
FirstLink_last(options) ==
    IF options # None /\ Len(options[1]) > 0 THEN options[1][Len(options[1])].link ELSE None
FirstLink(options) ==
    IF options # None /\ Len(options[1]) > 0 THEN options[1][1].link ELSE None

\* lines 37-49
extract_job_link(job) ==
    IF TruthyLink(FirstLink(job.apply_options)) THEN FirstLink(job.apply_options)[1]
    ELSE IF TruthyLink(FirstLink(job.related_links)) THEN FirstLink(job.related_links)[1]
    ELSE IF TruthyLink(job.link) THEN job.link[1]
    ELSE "#"

InitLink ==
    /\ pc = "extract_job_link"
    /\ fn_in \in LinkJobs
    /\ fn_out = <<>>
    /\ NoConfig /\ embedding = "m1" /\ all_fresh_jobs = <<>> /\ NoSearch /\ NoRank

ExtractLinkCall ==
    /\ pc = "extract_job_link"
    /\ fn_out' = extract_job_link(fn_in)
    /\ pc' = "link_done"
    /\ UNCHANGED <<mainVars, searchVars, rankVars, fn_in, events>>

SpecLink == InitLink /\ [][ExtractLinkCall]_vars

(* _dedup_by_title_company_location applied on its own, then to its result *)

\* key3: the title of key1 with another company
pC == Job(Some(<<"a">>), Some(<<"k">>), Some(<<"x">>), Some(<<"d">>), PostedAt(T_2h))
DedupPostings == {pA, pA2, pB, pC, pBlank, pOld}

InitDedup ==
    /\ pc = "dedup"
    /\ fn_in \in UNION {[1..n -> DedupPostings] : n \in 0..MaxDedupLen}
    /\ fn_out = <<>>
    /\ NoConfig /\ embedding = "m1" /\ all_fresh_jobs = <<>> /\ NoSearch /\ NoRank

DedupCall ==
    /\ pc = "dedup"
    /\ fn_out' = [once |-> dedup_by_title_company_location(fn_in)]
    /\ pc' = "dedup_again"
    /\ UNCHANGED <<mainVars, searchVars, rankVars, fn_in, events>>

DedupAgain ==
    /\ pc = "dedup_again"
    /\ fn_out' = [once |-> fn_out.once, twice |-> dedup_by_title_company_location(fn_out.once)]
    /\ pc' = "fn_done"
    /\ UNCHANGED <<mainVars, searchVars, rankVars, fn_in, events>>

SpecDedup == InitDedup /\ [][DedupCall \/ DedupAgain]_vars

(* match_jobs_to_resumes and build_email applied to any aggregated list *)

RankPostings == {pA, pB}

InitRank ==
    /\ pc = "match"
    /\ all_fresh_jobs \in UNION {[1..n -> RankPostings] : n \in 0..MaxRankJobs}
    /\ embedding = "m1"
    /\ NoConfig /\ NoSearch /\ NoRank /\ NoFn

SpecRank == InitRank /\ [][MatchJobs \/ BuildEmail]_vars

----------------------------------------------------------------------------
(* Claims *)

\* the key a claim speaks of: title, company, location, each trimmed
TrimmedKey(j) ==
    <<Strip(Get(j.title, <<>>)), Strip(Get(j.company_name, <<>>)), Strip(Get(j.location, <<>>))>>
KeysDistinct(js) ==
    \A a, b \in DOMAIN js : a < b => TrimmedKey(js[a]) # TrimmedKey(js[b])

\* C1: the list main passes to match_jobs_to_resumes holds every
\* (title, company, location) key at most once
C1_AggregatedKeysUnique ==
    pc \in {"match", "build", "done"} => KeysDistinct(all_fresh_jobs)

\* C2: a search never goes beyond 8 rounds, every provider call belongs to one
\* of the rounds 1..8 and asks for a location of the location list, no round
\* asks for the same location twice, so there are at most 8 calls per location
C2_RoundCapOneCallPerLocation ==
    /\ rounds <= 8
    /\ \A a \in DOMAIN call_log :
          call_log[a].round \in 1..8 /\ call_log[a].loc \in Range(locs)
    /\ \A a, b \in DOMAIN call_log :
          a < b /\ call_log[a].round = call_log[b].round => call_log[a].loc # call_log[b].loc
    /\ Len(call_log) <= 8 * Len(locs)

\* the target is unreachable, the cap ends the search: 2 rounds of 2 locations,
\* then 6 rounds of 3
C2_Witness ==
    /\ pc = "returned" /\ rounds = 8 /\ Len(fresh_for_role) < min_jobs
    /\ Len(locs) = 3 /\ Len(call_log) = 22

\* C3: a provider call that fails does not abort the search (nor the run): the
\* program is never left ended by the exception of a failed call
C3_FailedCallDoesNotAbort ==
    (call_log # <<>> /\ ~call_log[Len(call_log)].ok) => pc # "raised"

\* C4: in a search, once the accumulated count has reached min_jobs no
\* provider call is made any more
C4_NoCallAfterTarget ==
    [][Len(collected) >= min_jobs => call_log' = call_log]_vars

\* the target was reached before the last location of a round before the cap
C4_Witness ==
    /\ pc = "returned" /\ min_jobs > 0 /\ Len(collected) >= min_jobs
    /\ rounds < 8 /\ loc_idx < Len(locs) /\ call_log # <<>>

\* C5: every posting search_jobs_for_role returns is fresh within 24 hours and
\* no two of them share the trimmed (title, company, location) key
C5_ReturnedFreshAndDistinct ==
    pc = "returned" =>
        /\ \A k \in DOMAIN fresh_for_role : is_fresh(fresh_for_role[k], 24)
        /\ KeysDistinct(fresh_for_role)

\* a search that returns two postings after dropping a duplicate
C5_Witness ==
    /\ pc = "returned" /\ Len(fresh_for_role) = 2
    /\ Len(collected) > Len(fresh_for_role)

\* every freshness field of the posting is missing, empty or unparseable
AllTextsUnparseable(job) ==
    \/ job.detected_extensions = None
    \/ /\ job.detected_extensions # None
       /\ \A t \in {job.detected_extensions[1].posted_at, job.detected_extensions[1].posted} :
             t = None \/ t[1] \in UnparseableTexts
\* C6: a posting whose freshness fields are all missing, empty or unparseable
\* is rejected by is_fresh whatever the threshold
C6_UnparseableNeverFresh ==
    (pc = "fn_done" /\ AllTextsUnparseable(fn_in.job)) => (fn_out.fresh = FALSE /\ fn_out.hours.inf)

\* "tomorrow" against 9999 hours
C6_Witness ==
    /\ pc = "fn_done" /\ fn_in.max_hours = 9999
    /\ fn_in.job.detected_extensions = PostedAt(T_tomorrow)
    /\ fn_out.fresh = FALSE

\* the positions of the first occurrence of every key, and the k-th of them
FirstIdx(js) == {a \in DOMAIN js : \A b \in 1..(a - 1) : TrimmedKey(js[b]) # TrimmedKey(js[a])}
KthOf(S, k) == CHOOSE a \in S : Cardinality({b \in S : b <= a}) = k

\* C7: the deduplicated list is the input restricted to the first occurrence
\* of every key, in input order; A, B, A' gives A, B
C7_DedupKeepsFirstSeen ==
    pc \in {"dedup_again", "fn_done"} =>
        /\ Len(fn_out.once) = Cardinality(FirstIdx(fn_in))
        /\ \A k \in DOMAIN fn_out.once : fn_out.once[k] = fn_in[KthOf(FirstIdx(fn_in), k)]
        /\ fn_in = <<pA, pB, pA2>> => fn_out.once = <<pA, pB>>

\* A, B, A' with A' the key of A behind blanks, another description and age
C7_Witness ==
    pc = "dedup_again" /\ fn_in = <<pA, pB, pA2>> /\ fn_out.once = <<pA, pB>>

\* C8: deduplicating the deduplicated list changes nothing, and a list with
\* pairwise distinct keys is returned as it is
C8_DedupIdempotent ==
    pc = "fn_done" =>
        /\ fn_out.twice = fn_out.once
        /\ KeysDistinct(fn_in) => fn_out.once = fn_in

\* a list of three with one duplicate, deduplicated twice
C8_Witness ==
    /\ pc = "fn_done" /\ Len(fn_in) = 3 /\ Len(fn_out.once) = 2
    /\ fn_out.twice = fn_out.once

\* C9: for every resume the list build_email renders is sorted non-increasing
\* by score, has min(15, number of matches) entries, holds the highest-scored
\* matches of that resume (no match left out scores higher than one kept), and
\* keeps equal scores in discovery order
C9_TopJobsSortedTopK ==
    pc = "done" =>
        \A name \in DOMAIN matches :
            LET src == matches[name]
                top == top_jobs[name]
                kept == {top[k].ref : k \in DOMAIN top}
            IN  /\ Len(top) <= 15
                /\ Len(top) = Min(15, Len(src))
                /\ \A k \in DOMAIN top : \E m \in DOMAIN src : src[m] = top[k]
                /\ \A a, b \in DOMAIN top : a < b =>
                        /\ top[a].score >= top[b].score
                        /\ top[a].ref # top[b].ref
                        /\ top[a].score = top[b].score => top[a].ref < top[b].ref
                /\ \A m \in DOMAIN src : src[m].ref \notin kept =>
                        \A k \in DOMAIN top : top[k].score >= src[m].score

\* 16 matches cut to 15: a later posting ranked ahead of an earlier one, and
\* two equal scores kept side by side
C9_Witness ==
    /\ pc = "done"
    /\ Len(matches[ResumeNames[1]]) = 16
    /\ Len(top_jobs[ResumeNames[1]]) = 15
    /\ top_jobs[ResumeNames[1]][1].score > top_jobs[ResumeNames[1]][15].score
    /\ top_jobs[ResumeNames[1]][1].ref > top_jobs[ResumeNames[1]][15].ref
    /\ top_jobs[ResumeNames[1]][14].score = top_jobs[ResumeNames[1]][15].score

\* a field that is missing or holds only whitespace
BlankText(opt) == opt = None \/ Range(opt[1]) \subseteq Whitespace

\* C10: match_jobs_to_resumes returns one entry for every resume, and every
\* entry is the empty list when every posting's title, company and description
\* are missing or blank
C10_EveryProfileHasEntry ==
    pc \in {"build", "done"} =>
        /\ DOMAIN matches = {"Data Analyst", "Application Support Analyst"}
        /\ \A name \in DOMAIN matches :
              /\ matches[name] \in Seq([score : Int, ref : DOMAIN all_fresh_jobs])
              /\ (\A k \in DOMAIN all_fresh_jobs :
                     /\ BlankText(all_fresh_jobs[k].title)
                     /\ BlankText(all_fresh_jobs[k].company_name)
                     /\ BlankText(all_fresh_jobs[k].description))
                 => matches[name] = <<>>

\* a list whose only posting has an empty composite text
C10_Witness ==
    /\ pc = "build" /\ all_fresh_jobs = <<pBlank>>
    /\ \A name \in DOMAIN matches : matches[name] = <<>>

\* C11: is_fresh is monotonic in the threshold: a posting fresh for h1 is
\* fresh for every h2 >= h1
C11_FreshMonotonic ==
    (pc = "fn_done2" /\ fn_in.max_hours <= fn_out.max_hours2 /\ fn_out.fresh) => fn_out.fresh2

\* 20 hours ago: fresh for 24 hours, then asked for 72
C11_Witness ==
    /\ pc = "fn_done2" /\ fn_in.job.detected_extensions = PostedAt(T_20h)
    /\ fn_in.max_hours = 24 /\ fn_out.max_hours2 = 72
    /\ fn_out.fresh /\ fn_out.fresh2

\* the text holds the word, whatever the case of its letters
HoldsWord(t, w) ==
    \E k \in 1..(Len(t) - Len(w) + 1) : \A n \in DOMAIN w : LowerChar(t[k + n - 1]) = w[n]

\* C12: a freshness text that holds "today" or "just" in any letter case is
\* aged 0.0 whatever else it holds, an integer followed by a unit included
C12_TodayJustIsZero ==
    \A t \in FreshTexts :
        (/\ pc = "fn_done"
         /\ fn_in.job.detected_extensions = PostedAt(t)
         /\ HoldsWord(t, <<"t", "o", "d", "a", "y">>) \/ HoldsWord(t, <<"j", "u", "s", "t">>))
        => (~fn_out.hours.inf /\ fn_out.hours.sixtieths = 0)

\* "3 days ago, updated today"
C12_Witness ==
    /\ pc = "fn_done" /\ fn_in.job.detected_extensions = PostedAt(T_3d_today)
    /\ ~fn_out.hours.inf /\ fn_out.hours.sixtieths = 0

\* C13: a search that returns fewer than min_jobs postings has completed all
\* 8 rounds: one that stops before the cap returns at least min_jobs
\* deduplicated fresh postings
C13_ShortOnlyAfterCap ==
    (pc = "returned" /\ Len(fresh_for_role) < min_jobs) => rounds = hard_cap_rounds

\* the broaden target is a name that is not a configured location
NewBroaden == TruthyName(broaden_to_country) /\ broaden_to_country[1] \notin Range(locations)
\* the location list holds one more name than the configured ones
BroadenAdded == Len(locs) > Cardinality(Range(locations))
\* positions of the calls for a location in the log
CallsFor(loc) == {i \in DOMAIN call_log : call_log[i].loc = loc}

\* C14: the broaden location is added only at the end of round 2, only when
\* the accumulated count is below min_jobs, a target was supplied and it is not
\* already in the list; it is added at most once, is not queried in rounds 1-2
\* unless configured, and from round 3 on is queried once per round from offset 0
C14_BroadenAfterRoundTwo ==
    /\ Len(locs) <= Cardinality(Range(locations)) + 1
    /\ BroadenAdded =>
          /\ NewBroaden
          /\ locs[Len(locs)] = broaden_to_country[1]
          /\ rounds >= 2
          /\ rounds = 2 => (pc = "while" /\ Len(collected) < min_jobs)
    /\ (NewBroaden /\ rounds >= 3) => BroadenAdded
    /\ \A i \in DOMAIN call_log : call_log[i].round <= 2 => call_log[i].loc \in Range(locations)
    /\ NewBroaden =>
          LET calls == CallsFor(broaden_to_country[1])
          IN  /\ \A i \in calls :
                    LET k == Cardinality({j \in calls : j <= i})
                    IN  call_log[i].round = 2 + k /\ call_log[i].start = PageSize * (k - 1)
              /\ (pc = "while" /\ rounds >= 3) => Cardinality(calls) = rounds - 2

\* "Canada" added after round 2 and queried in rounds 3 and 4 at offsets 0 and 20
C14_Witness ==
    /\ broaden_to_country = Some("Canada") /\ BroadenAdded
    /\ \E i, j \in CallsFor("Canada") :
          /\ call_log[i].round = 3 /\ call_log[i].start = 0
          /\ call_log[j].round = 4 /\ call_log[j].start = PageSize

\* where a location stands in the argument: its first occurrence, the broaden
\* location after all of them
FirstOccurrence(loc) ==
    IF loc \in Range(locations)
    THEN CHOOSE k \in DOMAIN locations :
            locations[k] = loc /\ \A n \in 1..(k - 1) : locations[n] # loc
    ELSE Len(locations) + 1

\* C15: the k-th call for a location uses offset 20*(k-1), whatever the pages
\* held, so no (location, offset) pair is queried twice; duplicate input
\* locations are collapsed: each distinct location is queried at most once per
\* round, in first-occurrence order
C15_OffsetsAndOrder ==
    /\ \A i \in DOMAIN call_log :
          call_log[i].start
             = PageSize * Cardinality({j \in CallsFor(call_log[i].loc) : j < i})
    /\ \A i, j \in DOMAIN call_log :
          i < j =>
             /\ <<call_log[i].loc, call_log[i].start>> # <<call_log[j].loc, call_log[j].start>>
             /\ call_log[i].round = call_log[j].round =>
                   FirstOccurrence(call_log[i].loc) < FirstOccurrence(call_log[j].loc)
    /\ \A a, b \in DOMAIN locs : a # b => locs[a] # locs[b]

\* "Remote" given twice, queried in two rounds at offsets 0 and 20 although no
\* page held a fresh posting
C15_Witness ==
    /\ locations = <<"Remote", "Ontario", "Remote">>
    /\ collected = <<>>
    /\ \E i, j \in CallsFor("Remote") :
          /\ call_log[i].start = 0 /\ call_log[j].start = PageSize
          /\ call_log[j].round = call_log[i].round + 1

\* positions of the provider calls on the time line
CallTimes == {i \in DOMAIN events : events[i].kind = "call"}

\* C16: across a whole run, between any two consecutive provider calls there
\* is a politeness sleep of the requested delay: no two calls back to back
C16_SleepBetweenCalls ==
    [][(/\ Len(events') > Len(events)
        /\ events'[Len(events) + 1].kind = "call"
        /\ CallTimes # {})
       => \E k \in DOMAIN events :
             /\ \A i \in CallTimes : i < k
             /\ events[k] = SleepEvent(sleep_sec, "search")]_vars

\* a call of the second role, after the sleeps of the search and of main
C16_Witness ==
    /\ role_idx = 2
    /\ \E i, j, k \in DOMAIN events :
          /\ i < j /\ j < k
          /\ events[i].kind = "call" /\ events[k].kind = "call"
          /\ events[j] = SleepEvent(MainPause, "main")

\* C19: the final slice of search_jobs_for_role drops nothing: the returned
\* list is the deduplicated accumulation, and may be longer than min_jobs
C19_SliceDropsNothing ==
    pc = "returned" =>
        LET first == FirstIdx(collected)
        IN  fresh_for_role = [k \in 1..Cardinality(first) |-> collected[KthOf(first, k)]]

\* two distinct postings returned for a target of one
C19_Witness ==
    /\ pc = "returned" /\ min_jobs = 1
    /\ Len(fresh_for_role) = 2 /\ Len(fresh_for_role) > min_jobs

\* the postings that have something to score: a title, a company or a
\* description that is more than whitespace
Scorable(jobs) ==
    {k \in DOMAIN jobs :
        ~(BlankText(jobs[k].title) /\ BlankText(jobs[k].company_name)
          /\ BlankText(jobs[k].description))}

\* C17: match_jobs_to_resumes skips every posting whose composite text is
\* empty and scores every other posting exactly once per profile: every
\* profile's list has one entry per posting with non-empty composite text, in
\* discovery order
C17_ScoredOncePerProfile ==
    pc \in {"build", "done"} =>
        LET keep == Scorable(all_fresh_jobs)
        IN  \A name \in Range(ResumeNames) :
                /\ name \in DOMAIN matches
                /\ Len(matches[name]) = Cardinality(keep)
                /\ \A k \in DOMAIN matches[name] :
                      /\ matches[name][k].ref = KthOf(keep, k)
                      /\ matches[name][k].score
                            = cos_sim(embedding, name,
                                      CompositeText(all_fresh_jobs[KthOf(keep, k)]))

\* a blank posting between two scored ones: every list has entries 1 and 3
C17_Witness ==
    /\ pc = "build" /\ Len(all_fresh_jobs) = 3
    /\ Scorable(all_fresh_jobs) = {1, 3}
    /\ \A name \in Range(ResumeNames) :
          Len(matches[name]) = 2 /\ matches[name][2].ref = 3

\* the list is there, has a first option, and that option's link is not empty
HasFirstLink(opt) ==
    /\ opt # None /\ opt[1] # <<>>
    /\ opt[1][1].link # None /\ opt[1][1].link # Some("")
\* the links of the options after the first
LaterLinks(opt) ==
    IF opt = None THEN {}
    ELSE {opt[1][n].link[1] : n \in {m \in 2..Len(opt[1]) : opt[1][m].link # None}} \ {""}

\* C18: extract_job_link returns the first apply-option's link if present and
\* non-empty, otherwise the first related-link's link if present and
\* non-empty, otherwise the direct link if non-empty, otherwise "#"; the
\* options and related links after the first are never used
C18_LinkPreference ==
    pc = "link_done" =>
        /\ fn_out = (IF HasFirstLink(fn_in.apply_options) THEN fn_in.apply_options[1][1].link[1]
                     ELSE IF HasFirstLink(fn_in.related_links)
                          THEN fn_in.related_links[1][1].link[1]
                     ELSE IF fn_in.link # None /\ fn_in.link # Some("") THEN fn_in.link[1]
                     ELSE "#")
        /\ fn_out \notin LaterLinks(fn_in.apply_options) \cup LaterLinks(fn_in.related_links)

\* the first apply option has an empty link and the second a real one: the
\* first related link is returned
C18_Witness ==
    /\ pc = "link_done"
    /\ fn_in.apply_options = Some(<<[link |-> Some("")], [link |-> Some("apply1")]>>)
    /\ HasFirstLink(fn_in.related_links)
    /\ fn_out = "related0"

====
